---- MODULE Spec2Model ----
(***************************************************************************)
(* Admission-control router of serverless-qdrant.                          *)
(*                                                                         *)
(* Five QdrantLambdaStack variants live in the repository.  Each one       *)
(* builds lambda functions that mount the same EFS file system, an HttpApi *)
(* with a default integration, and explicit HttpRoutes.  The model covers  *)
(* the stack constructor (route registration), the gateway's route         *)
(* selection, the lambda concurrency gate and the executions' access to    *)
(* the shared file system.                                                 *)
(***************************************************************************)
EXTENDS Naturals, Sequences, FiniteSets, Bags

\* ---------------------------------------------------------------- bounds
\* Number of requests the callers send in one run.
MaxReq == 3

\* Concurrent executions the account leaves to functions without a
\* reservation (the account-level ceiling).
UnreservedLimit == 2

\* ------------------------------------------------------- program constants
\* reservedConcurrentExecutions: 1
ReservedCap == 1

\* ---------------------------------------------------------------- variants
CdkStack == "cdk-stack.ts"
ConfigStack == "config.ts"
Part001Stack == "part_001"
SafetyFirstStack == "part_000/1"
SingleLambdaStack == "part_000/2"

Variants ==
  {CdkStack, ConfigStack, Part001Stack, SafetyFirstStack, SingleLambdaStack}

\* ------------------------------------------------------------------- pools
QdrantReadLambda == "QdrantReadLambda"
QdrantWriteLambda == "QdrantWriteLambda"
SingleConcurrencyLambda == "SingleConcurrencyLambda"
MaxConcurrencyLambda == "MaxConcurrencyLambda"
LsLambda == "LsLambda"
QdrantLambda == "QdrantLambda"

\* Variant of Reserved: no function carries a reservation.
ReservedNone(v) == {}

\* The functions that carry reservedConcurrentExecutions in a variant.  In
\* cdk-stack.ts the property is commented out on QdrantWriteLambda.
Reserved(v) ==
  CASE v = CdkStack -> {}
    [] v = ConfigStack -> {QdrantWriteLambda}
    [] v = Part001Stack -> {QdrantWriteLambda}
    [] v = SafetyFirstStack -> {SingleConcurrencyLambda}
    [] v = SingleLambdaStack -> {}

\* Variant of DefaultPool: the read/write stacks hand the write integration
\* to the HttpApi as its default.
DefaultPoolWrite(v) ==
  CASE v = CdkStack -> QdrantWriteLambda
    [] v = ConfigStack -> QdrantWriteLambda
    [] v = Part001Stack -> QdrantWriteLambda
    [] v = SafetyFirstStack -> SingleConcurrencyLambda
    [] v = SingleLambdaStack -> QdrantLambda

\* defaultIntegration of the variant's HttpApi.
DefaultPool(v) ==
  CASE v = CdkStack -> QdrantReadLambda
    [] v = ConfigStack -> QdrantReadLambda
    [] v = Part001Stack -> QdrantReadLambda
    [] v = SafetyFirstStack -> SingleConcurrencyLambda
    [] v = SingleLambdaStack -> QdrantLambda

\* ------------------------------------------------------------- route tables
GET == "GET"
PUT == "PUT"
POST == "POST"
DELETE == "DELETE"

Endpoint(n, r, m) == [name |-> n, route |-> r, method |-> m]

writeEndpoints ==
  { Endpoint("upsert_points", <<"collections", "{name}", "points">>, PUT),
    Endpoint("delete_points",
             <<"collections", "{name}", "points", "delete">>, DELETE) }

maxConcurrencyEndpoints ==
  { Endpoint("search_points",
             <<"collections", "{name}", "points", "search">>, POST),
    Endpoint("batch_search_points",
             <<"collections", "{name}", "points", "search", "batch">>, POST),
    Endpoint("search_point_groups",
             <<"collections", "{name}", "points", "search", "groups">>, POST),
    Endpoint("scroll_points",
             <<"collections", "{name}", "points", "scroll">>, POST),
    Endpoint("get_points", <<"collections", "{name}", "points">>, POST),
    Endpoint("get_point", <<"collections", "{name}", "points", "{id}">>, POST) }

\* The single hard-coded route of cdk-stack.ts.
WriteRoutes ==
  Endpoint("WriteRoutes", <<"collections", "{collection_name}", "points">>, PUT)

LsLambdaRoute == Endpoint("LsLambdaRoute", <<"lsLambda">>, GET)

\* The endpoint list the constructor's forEach walks, and the integration it
\* gives every route of that list.
EndpointList(v) ==
  CASE v = CdkStack -> {WriteRoutes}
    [] v = ConfigStack -> writeEndpoints
    [] v = Part001Stack -> writeEndpoints
    [] v = SafetyFirstStack -> maxConcurrencyEndpoints
    [] v = SingleLambdaStack -> {}

ListIntegration(v) ==
  CASE v = CdkStack -> QdrantWriteLambda
    [] v = ConfigStack -> QdrantWriteLambda
    [] v = Part001Stack -> QdrantWriteLambda
    [] v = SafetyFirstStack -> MaxConcurrencyLambda
    [] v = SingleLambdaStack -> QdrantLambda

\* Variant of TrailingRoutes: the LsLambdaRoute is not created.
TrailingRoutesNone(v) == {}

\* Routes the constructor adds after the forEach.
TrailingRoutes(v) ==
  IF v = SafetyFirstStack
    THEN {[name |-> LsLambdaRoute.name, route |-> LsLambdaRoute.route,
           method |-> LsLambdaRoute.method, pool |-> LsLambda]}
    ELSE {}

\* "Add more endpoints here": entries a maintainer appends to the list.
NoExtra == Endpoint("", <<>>, "")

ExtraEndpoints(v) ==
  CASE v \in {ConfigStack, Part001Stack} ->
         { Endpoint("upsert_points_v2",
                    <<"collections", "{name}", "points">>, PUT),
           Endpoint("upsert_points", <<"collections", "{name}">>, PUT) }
    [] v = SafetyFirstStack ->
         { Endpoint("search_points_v2",
                    <<"collections", "{name}", "points", "search">>, POST),
           Endpoint("search_points",
                    <<"collections", "{name}", "points", "count">>, POST) }
    [] OTHER -> {}

\* ------------------------------------------------------------------ matching
\* A template segment written {x} is a path parameter.
IsParam(seg) == seg \in {"{name}", "{id}", "{collection_name}"}

\* Variant of Matches: the template is matched as a prefix of the path.
MatchesPrefix(path, route) ==
  /\ Len(path) >= Len(route)
  /\ \A i \in 1..Len(route) : IsParam(route[i]) \/ route[i] = path[i]

\* HttpRouteKey.with(route, method): the path matches the template when both
\* have the same segments, a parameter standing for exactly one segment.
Matches(path, route) ==
  /\ Len(path) = Len(route)
  /\ \A i \in 1..Len(route) : IsParam(route[i]) \/ route[i] = path[i]

\* ------------------------------------------------------------------ requests
Req(m, p) == [method |-> m, path |-> p]

Requests ==
  { Req(PUT, <<"collections", "demo", "points">>),
    Req(POST, <<"collections", "demo", "points">>),
    Req(POST, <<"collections", "demo", "points", "search">>),
    Req(POST, <<"collections", "demo", "points", "42">>),
    Req(POST, <<"collections", "demo", "points", "42", "extra">>),
    Req(PUT, <<"collections", "demo">>),
    Req(GET, <<"collections", "demo">>),
    Req(DELETE, <<"collections", "demo", "points", "delete">>),
    Req(GET, <<"lsLambda">>) }

\* Requests that write to the index on the file system.
Mutating(r) == r.method \in {PUT, DELETE}

VARIABLES
  variant,   \* the stack variant that is deployed
  phase,     \* "constructing", "serving" or "failed"
  pending,   \* endpoints the forEach has not registered yet
  routes,    \* HttpRoutes registered so far
  inflight,  \* bag of requests waiting for or holding a slot
  arrived,   \* number of requests received so far
  counter,   \* the shared counter on the file system
  applied,   \* completed mutating executions, by kind of pool
  stats,     \* executions started, requests throttled, executions timed out
  fs,        \* lsLambda: the directory tree under /mnt/efs
  lines,     \* lsLambda: lines of the listing not yet processed
  result,    \* lsLambda: the nested mapping built so far
  currentDir,\* lsLambda: the mapping entries are added to
  dirStack   \* lsLambda: stack of the mappings of the open directories

routerVars ==
  <<variant, phase, pending, routes, inflight, arrived, counter, applied, stats>>

lsVars == <<fs, lines, result, currentDir, dirStack>>

vars == <<routerVars, lsVars>>

Pools ==
  {QdrantReadLambda, QdrantWriteLambda, SingleConcurrencyLambda,
   MaxConcurrencyLambda, LsLambda, QdrantLambda}


\* ------------------------------------------------------------- construction
Names(rs) == {d.name : d \in rs}

Init ==
  /\ variant \in Variants
  /\ \E extra \in ExtraEndpoints(variant) \cup {NoExtra} :
       pending = EndpointList(variant)
                   \cup (IF extra = NoExtra THEN {} ELSE {extra})
  /\ phase = "constructing"
  /\ routes = {}
  /\ inflight = EmptyBag
  /\ arrived = 0
  /\ counter = 0
  /\ applied = [w |-> 0, o |-> 0]
  /\ stats = [started |-> 0, throttled |-> [p \in Pools |-> 0], timedout |-> 0]
  /\ fs = [dirs |-> {}, files |-> {}]
  /\ lines = <<>>
  /\ result = [obj |-> {}, null |-> {}]
  /\ currentDir = <<>>
  /\ dirStack = <<>>

\* One iteration of endpoints.forEach: new HttpRoute(this, endpoint.name, ...)
\* with the list's integration.  The construct id is endpoint.name.
RegisterRoute ==
  /\ phase = "constructing"
  /\ \E e \in pending :
       /\ e.name \notin Names(routes)
       /\ routes' = routes \cup
            {[name |-> e.name, route |-> e.route, method |-> e.method,
              pool |-> ListIntegration(variant)]}
       /\ pending' = pending \ {e}
  /\ UNCHANGED <<variant, phase, inflight, arrived, counter, applied, stats>>
  /\ UNCHANGED lsVars

\* new HttpRoute(this, id, ...) with an id the scope already holds throws:
\* the constructor aborts and nothing is deployed.
RejectRoute ==
  /\ phase = "constructing"
  /\ \E e \in pending : e.name \in Names(routes)
  /\ phase' = "failed"
  /\ UNCHANGED <<variant, pending, routes, inflight, arrived, counter, applied, stats>>
  /\ UNCHANGED lsVars

\* The rest of the constructor after the forEach; the stack then serves.
Synth ==
  /\ phase = "constructing"
  /\ pending = {}
  /\ routes' = routes \cup TrailingRoutes(variant)
  /\ phase' = "serving"
  /\ UNCHANGED <<variant, pending, inflight, arrived, counter, applied, stats>>
  /\ UNCHANGED lsVars

\* ------------------------------------------------------------ classification
\* Variant of MatchSet: the route key's method is ignored.
MatchSetAnyMethod(q) == {d \in routes : Matches(q.path, d.route)}

\* Routes whose route key (method and template) the request satisfies.
MatchSet(q) ==
  {d \in routes : d.method = q.method /\ Matches(q.path, d.route)}

\* Variant of Targets: the explicit routes are not consulted.
TargetsDefaultOnly(q) == {[via |-> "$default", pool |-> DefaultPool(variant)]}

\* Variant of Targets: a request that satisfies several routes is treated as
\* satisfying none.
TargetsUniqueOnly(q) ==
  IF Cardinality(MatchSet(q)) = 1
    THEN {[via |-> d.name, pool |-> d.pool] : d \in MatchSet(q)}
    ELSE {[via |-> "$default", pool |-> DefaultPool(variant)]}

\* Where the gateway may send the request: the integration of a route it
\* satisfies, or the default integration when it satisfies none.
Targets(q) ==
  IF MatchSet(q) = {}
    THEN {[via |-> "$default", pool |-> DefaultPool(variant)]}
    ELSE {[via |-> d.name, pool |-> d.pool] : d \in MatchSet(q)}

\* ------------------------------------------------------------------ admission
Executing(r) == r.st \in {"running", "read"}

CountOf(S) == BagCardinality([r \in S |-> inflight[r]])

ExecutingIn(p) ==
  CountOf({r \in BagToSet(inflight) : r.pool = p /\ Executing(r)})

ExecutingUnreserved ==
  CountOf({r \in BagToSet(inflight) :
             r.pool \notin Reserved(variant) /\ Executing(r)})

\* Variant of PoolCap: the reservation sits in the parameters every function
\* spreads.
PoolCapAllReserved(p) == ReservedCap

\* The concurrency cap that applies to a function.
PoolCap(p) == IF p \in Reserved(variant) THEN ReservedCap ELSE UnreservedLimit

\* Variant of Free: the capacity test is off by one.
FreeOffByOne(p) ==
  IF p \in Reserved(variant)
    THEN ExecutingIn(p) + 1 < PoolCap(p)
    ELSE ExecutingUnreserved + 1 < PoolCap(p)

\* A slot is free for pool p.
Free(p) ==
  IF p \in Reserved(variant)
    THEN ExecutingIn(p) < PoolCap(p)
    ELSE ExecutingUnreserved < PoolCap(p)

Entry(q, t, s) ==
  [method |-> q.method, path |-> q.path, via |-> t.via, pool |-> t.pool,
   st |-> s, local |-> 0]

Add(r) == inflight (+) SetToBag({r})
Remove(r) == inflight (-) SetToBag({r})
Replace(r, n) == (inflight (-) SetToBag({r})) (+) SetToBag({n})

\* A request arrives, is classified and finds a free slot.
Admit ==
  /\ phase = "serving"
  /\ arrived < MaxReq
  /\ \E q \in Requests : \E t \in Targets(q) :
       /\ Free(t.pool)
       /\ inflight' = Add(Entry(q, t, "running"))
  /\ arrived' = arrived + 1
  /\ stats' = [stats EXCEPT !.started = @ + 1]
  /\ UNCHANGED <<variant, phase, pending, routes, counter, applied>>
  /\ UNCHANGED lsVars

\* A request arrives while every slot of its pool is held and waits.
Enqueue ==
  /\ phase = "serving"
  /\ arrived < MaxReq
  /\ \E q \in Requests : \E t \in Targets(q) :
       /\ ~Free(t.pool)
       /\ inflight' = Add(Entry(q, t, "queued"))
  /\ arrived' = arrived + 1
  /\ UNCHANGED <<variant, phase, pending, routes, counter, applied, stats>>
  /\ UNCHANGED lsVars

\* Variant of Throttle: a request is refused whatever the pool's load.
ThrottleAlways ==
  /\ phase = "serving"
  /\ arrived < MaxReq
  /\ \E q \in Requests : \E t \in Targets(q) :
       stats' = [stats EXCEPT !.throttled[t.pool] = @ + 1]
  /\ arrived' = arrived + 1
  /\ UNCHANGED <<variant, phase, pending, routes, inflight, counter, applied>>
  /\ UNCHANGED lsVars

\* A request arrives while every slot of its pool is held and is refused.
Throttle ==
  /\ phase = "serving"
  /\ arrived < MaxReq
  /\ \E q \in Requests : \E t \in Targets(q) :
       /\ ~Free(t.pool)
       /\ stats' = [stats EXCEPT !.throttled[t.pool] = @ + 1]
  /\ arrived' = arrived + 1
  /\ UNCHANGED <<variant, phase, pending, routes, inflight, counter, applied>>
  /\ UNCHANGED lsVars

\* A waiting request obtains a slot that became free (no order among waiters).
Dequeue ==
  /\ phase = "serving"
  /\ \E r \in BagToSet(inflight) :
       /\ r.st = "queued"
       /\ Free(r.pool)
       /\ inflight' = Replace(r, [r EXCEPT !.st = "running"])
  /\ stats' = [stats EXCEPT !.started = @ + 1]
  /\ UNCHANGED <<variant, phase, pending, routes, arrived, counter, applied>>
  /\ UNCHANGED lsVars

\* ------------------------------------------------------------------ execution
WriterPool(v) ==
  CASE v = CdkStack -> QdrantWriteLambda
    [] v = ConfigStack -> QdrantWriteLambda
    [] v = Part001Stack -> QdrantWriteLambda
    [] v = SafetyFirstStack -> SingleConcurrencyLambda
    [] v = SingleLambdaStack -> "none"

\* The function that serves the read endpoints with full concurrency.
ReaderPool(v) ==
  CASE v = CdkStack -> QdrantReadLambda
    [] v = ConfigStack -> QdrantReadLambda
    [] v = Part001Stack -> QdrantReadLambda
    [] v = SafetyFirstStack -> MaxConcurrencyLambda
    [] v = SingleLambdaStack -> QdrantLambda

\* A mutating execution reads the shared counter from the file system.
ReadStore ==
  /\ \E r \in BagToSet(inflight) :
       /\ r.st = "running"
       /\ Mutating(r)
       /\ inflight' = Replace(r, [r EXCEPT !.st = "read", !.local = counter])
  /\ UNCHANGED <<variant, phase, pending, routes, arrived, counter, applied, stats>>
  /\ UNCHANGED lsVars

\* ... and writes the value it read plus one, then returns.
WriteStore ==
  /\ \E r \in BagToSet(inflight) :
       /\ r.st = "read"
       /\ counter' = r.local + 1
       /\ inflight' = Remove(r)
       /\ applied' = IF r.pool = WriterPool(variant)
                       THEN [applied EXCEPT !.w = @ + 1]
                       ELSE [applied EXCEPT !.o = @ + 1]
  /\ UNCHANGED <<variant, phase, pending, routes, arrived, stats>>
  /\ UNCHANGED lsVars

\* A read-only execution returns.
Complete ==
  /\ \E r \in BagToSet(inflight) :
       /\ r.st = "running"
       /\ ~Mutating(r)
       /\ inflight' = Remove(r)
  /\ UNCHANGED <<variant, phase, pending, routes, arrived, counter, applied, stats>>
  /\ UNCHANGED lsVars

\* Variant of Timeout: no timeout is in force.
TimeoutNever ==
  /\ FALSE
  /\ UNCHANGED vars

\* Variant of Timeout: the request of a timed-out execution is submitted again.
TimeoutRetry ==
  /\ \E r \in BagToSet(inflight) :
       /\ Executing(r)
       /\ inflight' = Replace(r, [r EXCEPT !.st = "queued", !.local = 0])
  /\ stats' = [stats EXCEPT !.timedout = @ + 1]
  /\ UNCHANGED <<variant, phase, pending, routes, arrived, counter, applied>>
  /\ UNCHANGED lsVars

\* timeout: Duration.seconds(30): the platform ends an execution that is
\* still running when the time is up.
Timeout ==
  /\ \E r \in BagToSet(inflight) :
       /\ Executing(r)
       /\ inflight' = Remove(r)
  /\ stats' = [stats EXCEPT !.timedout = @ + 1]
  /\ UNCHANGED <<variant, phase, pending, routes, arrived, counter, applied>>
  /\ UNCHANGED lsVars

Next ==
  \/ RegisterRoute
  \/ RejectRoute
  \/ Synth
  \/ Admit
  \/ Enqueue
  \/ Throttle
  \/ Dequeue
  \/ ReadStore
  \/ WriteStore
  \/ Complete
  \/ Timeout

Spec == Init /\ [][Next]_vars

\* The platform hands a freed slot to a waiting request, and the timeout of
\* an execution that is still running does expire.
LiveSpec == Init /\ [][Next]_vars /\ WF_vars(Dequeue) /\ WF_vars(Timeout)


\* =============================================================== lsLambda
\* The handler of lib/helpers/lsLambda.ts: it runs "ls -R /mnt/efs" and
\* turns the listing into a nested mapping.  A mapping is held as the set
\* of key paths that lead to an object and the set that lead to null;
\* a reference to an object is the key path that leads to it.

\* "/mnt/efs".split("/")
RootParts == <<"", "mnt", "efs">>

\* Entry names, in the order ls sorts them.
NameOrder == <<"a", "b", "f", "g", "h", "x">>

\* Directory trees under /mnt/efs: directories and files by their path
\* relative to the root, every one inside a directory of the tree.
DirChoices == {{}, {<<"a">>}, {<<"b">>}, {<<"a">>, <<"b">>},
               {<<"a">>, <<"a", "x">>}, {<<"a">>, <<"a", "x">>, <<"b">>}}

FileChoices == SUBSET {<<"f">>, <<"a", "g">>, <<"b", "h">>}

Parent(p) == SubSeq(p, 1, Len(p) - 1)

FsTrees ==
  {t \in [dirs : {d \cup {<<>>} : d \in DirChoices}, files : FileChoices] :
     \A f \in t.files : Parent(f) \in t.dirs}

DirLine(parts) == [kind |-> "dir", parts |-> parts, name |-> ""]
EntryLine(n) == [kind |-> "entry", parts |-> <<>>, name |-> n]
BlankLine == [kind |-> "blank", parts |-> <<>>, name |-> ""]

ChildNames(t, p) ==
  {n \in {NameOrder[i] : i \in 1..Len(NameOrder)} :
     Append(p, n) \in t.dirs \cup t.files}

Sorted(S) == SelectSeq(NameOrder, LAMBDA n : n \in S)

EntryLines(names) == [i \in 1..Len(names) |-> EntryLine(names[i])]

\* stdout of "ls -R /mnt/efs", split at the line breaks: for every directory
\* its path followed by ":", its entries, an empty line, then its
\* subdirectories in turn.
RECURSIVE ListDir(_, _), ListDirs(_, _, _)
ListDir(t, p) ==
  <<DirLine(RootParts \o p)>> \o EntryLines(Sorted(ChildNames(t, p)))
    \o <<BlankLine>>
    \o ListDirs(t, p, Sorted({n \in ChildNames(t, p) : Append(p, n) \in t.dirs}))

ListDirs(t, p, names) ==
  IF names = <<>> THEN <<>>
  ELSE ListDir(t, Append(p, Head(names))) \o ListDirs(t, p, Tail(names))

IsPrefix(p, q) == Len(p) <= Len(q) /\ SubSeq(q, 1, Len(p)) = p

\* obj[key] = value: what the key held before is gone.
Assign(m, path, kind) ==
  LET kept == [obj |-> {q \in m.obj : ~IsPrefix(path, q)},
               null |-> {q \in m.null : ~IsPrefix(path, q)}]
  IN IF kind = "obj" THEN [kept EXCEPT !.obj = @ \cup {path}]
                     ELSE [kept EXCEPT !.null = @ \cup {path}]

\* const depth = dirParts.length - 1
Depth(dirParts) == Len(dirParts) - 1

\* The stack deployed by the safety-first variant, serving, no request yet.
LsInit ==
  /\ variant = SafetyFirstStack
  /\ phase = "serving"
  /\ pending = {}
  /\ routes = {[name |-> e.name, route |-> e.route, method |-> e.method,
                pool |-> ListIntegration(SafetyFirstStack)] :
                 e \in EndpointList(SafetyFirstStack)}
               \cup TrailingRoutes(SafetyFirstStack)
  /\ inflight = EmptyBag
  /\ arrived = 0
  /\ counter = 0
  /\ applied = [w |-> 0, o |-> 0]
  /\ stats = [started |-> 0, throttled |-> [p \in Pools |-> 0], timedout |-> 0]
  /\ fs \in FsTrees
  /\ lines = ListDir(fs, <<>>)
  /\ result = [obj |-> {}, null |-> {}]
  /\ currentDir = <<>>
  /\ dirStack = <<>>

\* Loop body for a line that ends with ":".
LsDirLine ==
  /\ lines # <<>>
  /\ Head(lines).kind = "dir"
  /\ LET dirParts == Head(lines).parts
         depth == Depth(dirParts)
         popped == IF Len(dirStack) > depth
                     THEN SubSeq(dirStack, 1, depth) ELSE dirStack
         lastDirPart == dirParts[Len(dirParts)]
         base == IF Len(popped) = 0 THEN <<>> ELSE popped[Len(popped)]
         newDir == Append(base, lastDirPart)
     IN /\ result' = Assign(result, newDir, "obj")
        /\ currentDir' = newDir
        /\ dirStack' = Append(popped, newDir)
  /\ lines' = Tail(lines)
  /\ UNCHANGED <<routerVars, fs>>

\* Loop body for any other non-empty line.
LsEntryLine ==
  /\ lines # <<>>
  /\ Head(lines).kind = "entry"
  /\ result' = Assign(result, Append(currentDir, Head(lines).name), "null")
  /\ lines' = Tail(lines)
  /\ UNCHANGED <<routerVars, fs, currentDir, dirStack>>

\* Loop body for an empty line.
LsBlankLine ==
  /\ lines # <<>>
  /\ Head(lines).kind = "blank"
  /\ lines' = Tail(lines)
  /\ UNCHANGED <<routerVars, fs, result, currentDir, dirStack>>

LsNext ==
  \/ LsDirLine
  \/ LsEntryLine
  \/ LsBlankLine

LsSpec == LsInit /\ [][LsNext]_vars

\* ================================================================== claims
InFlight == BagToSet(inflight)

PointsPath == <<"collections", "demo", "points">>
PointPath == <<"collections", "demo", "points", "42">>
PointExtraPath == <<"collections", "demo", "points", "42", "extra">>
SearchPath == <<"collections", "demo", "points", "search">>
CollectionPath == <<"collections", "demo">>

\* C1: at most one Writer Pool execution is in progress, in every variant
\* that has a write pool.
SingleWriter == ExecutingIn(WriterPool(variant)) <= 1

\* C2: no two executions that mutate the shared store overlap, whatever
\* route the mutating request took (stated for the stacks whose write
\* function carries the reservation, where the Writer Pool itself is capped).
NoConcurrentMutations ==
  WriterPool(variant) \in Reserved(variant) =>
    CountOf({r \in InFlight : Mutating(r) /\ Executing(r)}) <= 1

\* C3: a request whose method and path satisfy a descriptor of the table runs
\* in that descriptor's pool, whatever the order the routes were registered in.
DescriptorDecidesPool ==
  \A r \in InFlight : \A d \in routes :
    (d.method = r.method /\ Matches(r.path, d.route)) => r.pool = d.pool

C3Witness ==
  /\ variant = ConfigStack
  /\ \E r \in InFlight :
       r.method = DELETE /\ r.via = "delete_points" /\ r.pool = QdrantWriteLambda

\* C4: the descriptor a request was routed by has as many segments as the
\* path, literal segments equal and one parameter per remaining segment;
\* get_point takes /collections/demo/points/42 and neither the shorter nor
\* the longer path.
SegmentwiseMatch ==
  \A r \in InFlight :
    /\ r.via # "$default" =>
         \E d \in routes :
           /\ d.name = r.via
           /\ Len(d.route) = Len(r.path)
           /\ \A i \in 1..Len(d.route) :
                d.route[i] = r.path[i] \/ IsParam(d.route[i])
    /\ r.path \in {PointsPath, PointExtraPath} => r.via # "get_point"
    /\ (r.path = PointExtraPath /\ r.method = POST) => r.via = "$default"
    /\ (variant = SafetyFirstStack /\ r.method = POST /\ r.path = PointPath)
         => r.via = "get_point"

C4Witness ==
  /\ \E r \in InFlight : r.path = PointPath /\ r.via = "get_point"
  /\ \E r \in InFlight : r.path = PointExtraPath /\ r.via = "$default"
  /\ \E r \in InFlight : r.path = PointsPath /\ r.via = "get_points"

\* C5: a descriptor routes a request only when the methods agree; on
\* /collections/demo/points a PUT runs in the writer pool and a POST in the
\* reader pool.
MethodSensitive ==
  \A r \in InFlight :
    /\ \A d \in routes : d.name = r.via => d.method = r.method
    /\ (WriterPool(variant) # "none" /\ r.path = PointsPath /\ r.method = PUT)
         => r.pool \in {QdrantWriteLambda, SingleConcurrencyLambda}
    /\ (WriterPool(variant) # "none" /\ r.path = PointsPath /\ r.method = POST)
         => r.pool \in {QdrantReadLambda, MaxConcurrencyLambda}

C5Witness ==
  /\ variant = Part001Stack
  /\ \E r \in InFlight :
       r.path = PointsPath /\ r.method = PUT /\ r.pool = QdrantWriteLambda
  /\ \E r \in InFlight :
       r.path = PointsPath /\ r.method = POST /\ r.via = "$default"
         /\ r.pool = QdrantReadLambda

\* The default integration each stack file declares.
DeclaredDefault ==
  CASE variant \in {CdkStack, ConfigStack, Part001Stack} -> QdrantReadLambda
    [] variant = SafetyFirstStack -> SingleConcurrencyLambda
    [] variant = SingleLambdaStack -> QdrantLambda

\* C6: a request that satisfies no descriptor is routed, and always to the
\* one default pool of the variant, whatever else is in flight.
UnmatchedToDefault ==
  phase = "serving" =>
    /\ \A q \in Requests :
         MatchSet(q) = {} =>
           Targets(q) = {[via |-> "$default", pool |-> DeclaredDefault]}
    /\ \A r \in InFlight :
         MatchSet(r) = {} => (r.via = "$default" /\ r.pool = DeclaredDefault)

C6Witness ==
  /\ variant = SafetyFirstStack
  /\ \E r \in InFlight :
       /\ r.method = GET /\ r.path = CollectionPath
       /\ r.pool = SingleConcurrencyLambda /\ r.st = "queued"
  /\ \E r \in InFlight :
       /\ r.method = PUT /\ r.path = CollectionPath
       /\ r.pool = SingleConcurrencyLambda /\ Executing(r)

RouteKeysDistinct ==
  \A d1 \in routes : \A d2 \in routes :
    (d1.method = d2.method /\ d1.route = d2.route) => d1 = d2

NoLostUpdate ==
  (applied.o = 0 /\ applied.w >= 2) => counter = applied.w

\* C10: a read that arrives while the account has a free execution starts at
\* once, also when another read is executing: reads are not serialized.
ReadersOverlap ==
  [][\A r \in BagToSet(inflight') :
       (/\ inflight' = Add(r)
        /\ r.pool = ReaderPool(variant)
        /\ ExecutingUnreserved < UnreservedLimit)
         => r.st = "running"]_vars

C10Witness ==
  CountOf({r \in InFlight :
             r.pool = ReaderPool(variant) /\ ~Mutating(r) /\ r.st = "running"})
    >= 2


\* ---------------------------------------------------------------- C11..C15
QueuedIn(p) == CountOf({r \in InFlight : r.pool = p /\ r.st = "queued"})

RECURSIVE SumThrottled(_)
SumThrottled(S) ==
  IF S = {} THEN 0
  ELSE LET p == CHOOSE x \in S : TRUE
       IN stats.throttled[p] + SumThrottled(S \ {p})

ThrottledTotal == SumThrottled(Pools)

SlotEventuallyReleased ==
  \A p \in Pools : (ExecutingIn(p) > 0) ~> (ExecutingIn(p) = 0)

C12Witness ==
  /\ WriterPool(variant) \in Reserved(variant)
  /\ ExecutingIn(WriterPool(variant)) = 1
  /\ stats.timedout > 0

\* C13: a request causes at most one execution: every request received is
\* waiting, was refused, or was started exactly once, and what was started is
\* running, timed out or returned.
NoRetry ==
  /\ stats.started + CountOf({r \in InFlight : r.st = "queued"})
       + ThrottledTotal = arrived
  /\ CountOf({r \in InFlight : Executing(r)}) + stats.timedout
       + applied.w + applied.o <= stats.started
  /\ counter <= stats.started

C13Witness ==
  /\ arrived >= 2
  /\ stats.timedout > 0
  /\ ThrottledTotal > 0
  /\ InFlight = {}
  /\ counter = 0

\* C14 (as claimed): no request to the Reader Pool is throttled when more
\* requests arrive than the pool has slots.
AllReadsSucceed ==
  variant = SafetyFirstStack => stats.throttled[MaxConcurrencyLambda] = 0

\* C14 (amended): a request to the Reader Pool is refused or made to wait
\* only while every slot is held, and one that finds a slot free starts at
\* once.
ReadsOverCap ==
  [][LET R == ReaderPool(variant) IN
     /\ stats'.throttled[R] > stats.throttled[R] => ~Free(R)
     /\ \A r \in BagToSet(inflight') :
          (inflight' = Add(r) /\ r.pool = R /\ r.st = "queued") => ~Free(R)]_vars

C14Witness ==
  /\ ExecutingIn(ReaderPool(variant)) = UnreservedLimit
  /\ \E r \in InFlight :
       r.path = SearchPath /\ r.pool = ReaderPool(variant) /\ r.st = "queued"
  /\ \E r \in InFlight :
       r.path = SearchPath /\ r.pool = ReaderPool(variant) /\ r.st = "running"

\* C15: whether the Reader Pool admits depends on the executions outside
\* the Writer Pool alone, and whether the Writer Pool admits on its own
\* executions alone.
PoolsIndependent ==
  (phase = "serving" /\ WriterPool(variant) # "none") =>
    /\ Free(ReaderPool(variant)) =
         (CountOf({r \in InFlight :
                     /\ Executing(r)
                     /\ r.pool \notin Reserved(variant)
                     /\ r.pool # WriterPool(variant)}) < UnreservedLimit)
    /\ Free(WriterPool(variant)) = (ExecutingIn(WriterPool(variant)) < 1)

\* ---------------------------------------------------------------- C18, C19
LsPath == <<"lsLambda">>

\* C18: a GET /lsLambda request never waits for or holds a slot of the
\* Writer Pool and never takes part in a read-then-write of the store; in
\* the stack that defines the route it runs in LsLambda.
LsNeverInWriter ==
  \A r \in InFlight :
    (r.method = GET /\ r.path = LsPath) =>
      /\ r.pool # WriterPool(variant)
      /\ r.st # "read"
      /\ variant = SafetyFirstStack => (r.pool = LsLambda /\ r.via = "LsLambdaRoute")

C18Witness ==
  /\ variant = SafetyFirstStack
  /\ \E r \in InFlight :
       r.method = GET /\ r.path = LsPath /\ r.pool = LsLambda /\ r.st = "running"
  /\ \E r \in InFlight :
       r.pool = SingleConcurrencyLambda /\ Mutating(r) /\ r.st = "read"

\* C19: in the safety-first stack every request outside the whitelisted
\* routes runs in SingleConcurrencyLambda, every mutating request among
\* them, and no two of these execute at the same time.
SafetyFirstSerialized ==
  variant = SafetyFirstStack =>
    /\ \A r \in InFlight :
         (r.via = "$default" \/ Mutating(r)) => r.pool = SingleConcurrencyLambda
    /\ \A r \in InFlight :
         r.via = "$default" <=>
           ~\E d \in routes : d.method = r.method /\ Matches(r.path, d.route)
    /\ CountOf({r \in InFlight :
                  Executing(r) /\ (r.via = "$default" \/ Mutating(r))}) <= 1

C19Witness ==
  /\ variant = SafetyFirstStack
  /\ \E r \in InFlight :
       r.method = PUT /\ r.path = CollectionPath /\ Executing(r)
  /\ \E r \in InFlight :
       r.method = PUT /\ r.path = PointsPath /\ r.st = "queued"


\* ---------------------------------------------------------------- C16, C17
\* The key path of a directory or file of the tree in the returned mapping.
KeyPath(p) == <<"efs">> \o p

\* C16: when the handler returns, the mapping of every directory of the
\* tree sits under the mapping of its parent.
NestedUnderParent ==
  lines = <<>> => \A d \in fs.dirs : KeyPath(d) \in result.obj

\* C17: when the handler returns, a key leads to null exactly when it names
\* a file of the tree.
NullIffFile ==
  lines = <<>> =>
    /\ \A f \in fs.files : KeyPath(f) \in result.null
    /\ \A q \in result.null : \E f \in fs.files : q = KeyPath(f)

====
